---------------------------- MODULE Spec2Model ----------------------------
(***************************************************************************)
(* A model of the rust_bootcamp programs:                                  *)
(*   hex_grid  - Hex, Grid::get_weight, read_map, find_shortest_path       *)
(*               (src/hex_grid/src/main.rs)                                *)
(*   hex_tool  - handle_write (src/hex_tool/main.rs)                       *)
(*                                                                         *)
(* Three state machines share the module.  Spec / FairSpec run the path    *)
(* search on a Grid that satisfies the Grid data-model invariants,         *)
(* SpecLoad runs read_map on a map file, SpecHex runs handle_write on a    *)
(* file.  The variables of the machines that a specification does not run  *)
(* stay at their idle values.                                              *)
(*                                                                         *)
(* Indices: Rust vectors are 0-based, TLA+ sequences 1-based.  tiles[row]  *)
(* [col] of the code is tiles[row + 1][col + 1] here, and entry i of the   *)
(* search's `parents` index map is parents[i + 1]; the parent index        *)
(* usize::MAX of the start node is NoParent.                               *)
(***************************************************************************)
EXTENDS Integers, Sequences, FiniteSets, TLC

VARIABLES
    \* ---- hex_grid: find_shortest_path
    grid,       \* the Grid handed to find_shortest_path
    pc,         \* "search" while astar's loop runs, "done" once it returned ("idle": not run)
    parents,    \* astar's index map: sequence of [node, parent, cost]
    to_see,     \* astar's binary heap: set of [estimated_cost, cost, index]
    result,     \* the returned Option<(Vec<Hex>, u32)>
    \* ---- hex_grid: read_map
    mapfile,    \* the map file: None (missing) or Some(sequence of lines)
    loadres,    \* "pending", then "ok" | "err" | "panic" ("idle": not run)
    loaded,     \* None or Some(Grid) returned by read_map
    \* ---- hex_tool: handle_write
    disk,       \* the target file's bytes
    before,     \* the file's bytes when handle_write was called
    wargs,      \* [offset, hex_string] of the call
    wres        \* "pending", then "ok" | "err" ("idle": not run)

vars == <<grid, pc, parents, to_see, result,
          mapfile, loadres, loaded, disk, before, wargs, wres>>

searchVars == <<grid, pc, parents, to_see, result>>
loadVars == <<mapfile, loadres, loaded>>
hexVars == <<disk, before, wargs, wres>>

(***************************************************************************)
(* Bounds of the model.                                                    *)
(***************************************************************************)
\* a grid of the search has at most MaxCells tiles (width * height)
MaxCells == 6
\* tile weights of the enumerated grids are 1..MaxWeight
MaxWeight == 2
\* the column mapping is probed on rows -MaxProbe..MaxProbe
MaxProbe == 5
\* a map file has a header line and at most MaxRows data lines
MaxRows == 2
\* a line of a map file has at most MaxRowLen tokens
MaxRowLen == 2
\* the file handle_write is called on holds at most MaxFileLen bytes
MaxFileLen == 3
\* handle_write's offset is 0..MaxOffset
MaxOffset == 2
\* handle_write's hex string has at most MaxHexLen characters
MaxHexLen == 4

(***************************************************************************)
(* Option<T>                                                               *)
(***************************************************************************)
None == <<>>
Some(v) == <<v>>
IsSome(o) == Len(o) = 1
Unwrap(o) == o[1]

Abs(x) == IF x < 0 THEN -x ELSE x

\* Rust's integer `/`: rounds toward zero
TruncDiv(a, b) == IF a >= 0 THEN a \div b ELSE -((-a) \div b)

(***************************************************************************)
(* Hex                                                                     *)
(***************************************************************************)
HexNew(q, r) == [q |-> q, r |-> r]

\* Hex::distance without the halving
DistanceNotHalved(a, b) ==
    Abs(a.q - b.q) + Abs(a.q + a.r - b.q - b.r) + Abs(a.r - b.r)

\* Hex::distance as |dq| + |dr|, without the diagonal term
DistanceNoDiagonal(a, b) == Abs(a.q - b.q) + Abs(a.r - b.r)

\* Hex::distance: the sum is cast to u32, then halved
Distance(a, b) ==
    (Abs(a.q - b.q) + Abs(a.q + a.r - b.q - b.r) + Abs(a.r - b.r)) \div 2

\* Hex::neighbors with the two (q + 1, ..) offsets repeated for the two
\* offsets that lead to the row below
NeighborsNoRowBelow(h) ==
    << HexNew(h.q + 1, h.r),
       HexNew(h.q - 1, h.r),
       HexNew(h.q + 1, h.r),
       HexNew(h.q, h.r - 1),
       HexNew(h.q + 1, h.r - 1),
       HexNew(h.q + 1, h.r - 1) >>

\* Hex::neighbors, in the vec!'s order
Neighbors(h) ==
    << HexNew(h.q + 1, h.r),
       HexNew(h.q - 1, h.r),
       HexNew(h.q, h.r + 1),
       HexNew(h.q, h.r - 1),
       HexNew(h.q + 1, h.r - 1),
       HexNew(h.q - 1, h.r + 1) >>

(***************************************************************************)
(* Grid                                                                    *)
(***************************************************************************)
\* `hex.r & 1` on a two's-complement i32: 1 for every odd r, negative or not
LowBit(r) == r % 2

\* the column without the `- (hex.r & 1)`: the plain truncating hex.r / 2
ColTruncating(hex) == hex.q + TruncDiv(hex.r, 2)

\* the column get_weight computes: hex.q + (hex.r - (hex.r & 1)) / 2
Col(hex) == hex.q + TruncDiv(hex.r - LowBit(hex.r), 2)

\* the row get_weight computes
Row(hex) == hex.r

\* Grid::get_weight
GetWeight(g, hex) ==
    LET col == Col(hex)
        row == Row(hex)
    IN  IF col >= 0 /\ col < g.width /\ row >= 0 /\ row < g.height
        THEN Some(g.tiles[row + 1][col + 1])
        ELSE None

(***************************************************************************)
(* find_shortest_path                                                      *)
(***************************************************************************)
Start == HexNew(0, 0)
End(g) == HexNew(g.width - 1, g.height - 1)

\* the successors closure: the neighbours get_weight accepts, each with its
\* weight, in neighbors() order
RECURSIVE FilterMap(_, _, _)
FilterMap(g, ns, i) ==
    IF i > Len(ns) THEN <<>>
    ELSE LET w == GetWeight(g, ns[i])
         IN  (IF IsSome(w) THEN << <<ns[i], Unwrap(w)>> >> ELSE <<>>)
             \o FilterMap(g, ns, i + 1)

\* the successors closure with every move costing 1
RECURSIVE FilterMapUnit(_, _, _)
FilterMapUnit(g, ns, i) ==
    IF i > Len(ns) THEN <<>>
    ELSE (IF IsSome(GetWeight(g, ns[i])) THEN << <<ns[i], 1>> >> ELSE <<>>)
         \o FilterMapUnit(g, ns, i + 1)

SuccessorsUnitCost(g, p) == FilterMapUnit(g, Neighbors(p), 1)

\* the successors closure without the bounds filter: an out-of-bounds
\* neighbour is kept, at weight 1
SuccessorsUnfiltered(g, p) ==
    [i \in 1..6 |->
       LET w == GetWeight(g, Neighbors(p)[i])
       IN  <<Neighbors(p)[i], IF IsSome(w) THEN Unwrap(w) ELSE 1>>]

Successors(g, p) == FilterMap(g, Neighbors(p), 1)

\* the heuristic closure
Heuristic(g, p) == Distance(p, End(g))

\* the success closure
Success(g, p) == p = End(g)

(***************************************************************************)
(* astar, as find_shortest_path calls it.  The loop is the pathfinding      *)
(* crate's: an index map `parents` of (parent index, best cost) per node,   *)
(* and a binary heap `to_see` of SmallestCostHolder, popped smallest         *)
(* estimated_cost first and, among equals, largest cost first.  Which of    *)
(* several equal holders the heap pops is left open here.  The goal test    *)
(* comes before the staleness test, and a successor is pushed when it is    *)
(* new or reached strictly cheaper than before.                             *)
(***************************************************************************)
NoParent == 0

\* position of node n in the index map, 0 when absent
IndexOf(ps, n) ==
    IF \E i \in 1..Len(ps) : ps[i].node = n
    THEN CHOOSE i \in 1..Len(ps) : ps[i].node = n
    ELSE 0

\* SmallestCostHolder's Ord: a is greater than b (popped before it) when its
\* estimated_cost is smaller, or equal with a larger cost
HolderGreater(a, b) ==
    \/ a.estimated_cost < b.estimated_cost
    \/ a.estimated_cost = b.estimated_cost /\ a.cost > b.cost

\* the holders BinaryHeap::pop may return: the maxima of the order
Poppable(heap) == {e \in heap : \A o \in heap : ~HolderGreater(o, e)}

\* one turn of the `for (successor, move_cost) in successors` loop, on the
\* successor succ of the node at `index` reached with `cost`;
\* st = [parents, to_see]
RelaxOne(g, st, succ, index, cost) ==
    LET successor == succ[1]
        move_cost == succ[2]
        new_cost == cost + move_cost
        at == IndexOf(st.parents, successor)
        h == Heuristic(g, successor)
    IN  IF at = 0
        THEN \* Vacant
             [parents |-> Append(st.parents,
                  [node |-> successor, parent |-> index, cost |-> new_cost]),
              to_see |-> st.to_see \cup
                  {[estimated_cost |-> new_cost + h, cost |-> new_cost,
                    index |-> Len(st.parents) + 1]}]
        ELSE IF st.parents[at].cost > new_cost
        THEN \* Occupied, and the new way is cheaper
             [parents |-> [st.parents EXCEPT ![at] =
                  [node |-> successor, parent |-> index, cost |-> new_cost]],
              to_see |-> st.to_see \cup
                  {[estimated_cost |-> new_cost + h, cost |-> new_cost, index |-> at]}]
        ELSE \* Occupied by a way at least as cheap: `continue`
             st

\* the whole loop, from successor i on (each turn's state is bound as a value
\* before the next turn reads it)
RECURSIVE Relax(_, _, _, _, _, _)
Relax(g, st, succs, i, index, cost) ==
    IF i > Len(succs) THEN st
    ELSE CHOOSE out \in
           {Relax(g, nxt, succs, i + 1, index, cost) :
              nxt \in {RelaxOne(g, cur, succs[i], index, cost) : cur \in {st}}} : TRUE

\* reverse_path: from index back along the parent links, start first
RECURSIVE ReversePath(_, _)
ReversePath(ps, i) ==
    IF i = NoParent THEN <<>>
    ELSE Append(ReversePath(ps, ps[i].parent), ps[i].node)

\* the state after astar's set-up: the start is in the index map and on the heap
AstarInit(g) ==
    /\ grid = g
    /\ pc = "search"
    /\ parents = << [node |-> Start, parent |-> NoParent, cost |-> 0] >>
    /\ to_see = { [estimated_cost |-> 0, cost |-> 0, index |-> 1] }
    /\ result = None

\* a pop whose node is the goal: return the path and the popped cost
AstarFound ==
    /\ pc = "search"
    /\ \E e \in Poppable(to_see) :
         /\ Success(grid, parents[e.index].node)
         /\ result' = Some(<<ReversePath(parents, e.index), e.cost>>)
         /\ to_see' = to_see \ {e}
    /\ pc' = "done"
    /\ UNCHANGED <<grid, parents, loadVars, hexVars>>

\* a pop of a holder that a cheaper way has replaced: `continue`
AstarStale ==
    /\ pc = "search"
    /\ \E e \in Poppable(to_see) :
         /\ ~Success(grid, parents[e.index].node)
         /\ e.cost > parents[e.index].cost
         /\ to_see' = to_see \ {e}
    /\ UNCHANGED <<grid, pc, parents, result, loadVars, hexVars>>

\* a pop that expands its node
AstarExpand ==
    /\ pc = "search"
    /\ \E e \in Poppable(to_see) :
         /\ ~Success(grid, parents[e.index].node)
         /\ ~(e.cost > parents[e.index].cost)
         /\ \E succs \in {Successors(grid, parents[e.index].node)} :
              \E st \in {Relax(grid, [parents |-> parents, to_see |-> to_see \ {e}],
                                succs, 1, e.index, e.cost)} :
                /\ parents' = st.parents
                /\ to_see' = st.to_see
    /\ UNCHANGED <<grid, pc, result, loadVars, hexVars>>

\* the heap is empty: None
AstarExhausted ==
    /\ pc = "search"
    /\ to_see = {}
    /\ result' = None
    /\ pc' = "done"
    /\ UNCHANGED <<grid, parents, to_see, loadVars, hexVars>>

(***************************************************************************)
(* read_map.  A line is a sequence of characters (one-character strings).  *)
(***************************************************************************)
Digits == <<"0", "1", "2", "3", "4", "5", "6", "7", "8", "9">>

IsDigit(c) == \E d \in 1..10 : Digits[d] = c
DigitVal(c) == (CHOOSE d \in 1..10 : Digits[d] = c) - 1

\* str::split_whitespace: the maximal runs of non-space characters;
\* cur is the run being read
RECURSIVE SplitFrom(_, _, _)
SplitFrom(line, i, cur) ==
    IF i > Len(line)
    THEN IF cur = <<>> THEN <<>> ELSE <<cur>>
    ELSE IF line[i] = " "
    THEN (IF cur = <<>> THEN <<>> ELSE <<cur>>) \o SplitFrom(line, i + 1, <<>>)
    ELSE SplitFrom(line, i + 1, Append(cur, line[i]))

\* line.trim().split_whitespace(), and the data rows' split_whitespace()
SplitWhitespace(line) == SplitFrom(line, 1, <<>>)

RECURSIVE DigitsValue(_, _, _)
DigitsValue(tok, i, acc) ==
    IF i > Len(tok) THEN acc
    ELSE DigitsValue(tok, i + 1, acc * 10 + DigitVal(tok[i]))

\* str::parse for usize and u32: an optional "+", then one digit or more;
\* anything else ("", "-1", "x") is an Err.  (The tokens of the model are too
\* short to overflow.)
ParseUnsigned(tok) ==
    LET body == IF tok # <<>> /\ tok[1] = "+" THEN Tail(tok) ELSE tok
    IN  IF body # <<>> /\ \A i \in 1..Len(body) : IsDigit(body[i])
        THEN Some(DigitsValue(body, 1, 0))
        ELSE None

\* read_map's outcome on a map file: [res, grid]
\*   "err"   File::open failed (the `?`)
\*   "panic" parts[0] / parts[1] out of range, or an unwrap() of a parse Err
\*   "ok"    Ok(Grid { width, height, tiles })
ReadMapResult(file) ==
    IF ~IsSome(file) THEN [res |-> "err", grid |-> None]
    ELSE
      LET lines == Unwrap(file)
          first == IF lines = <<>> THEN <<>> ELSE lines[1]
          parts == SplitWhitespace(first)
          rows == [k \in 1..(Len(lines) - 1) |-> SplitWhitespace(lines[k + 1])]
      IN  IF Len(parts) < 1 \/ ~IsSome(ParseUnsigned(parts[1]))
          THEN [res |-> "panic", grid |-> None]
          ELSE IF Len(parts) < 2 \/ ~IsSome(ParseUnsigned(parts[2]))
          THEN [res |-> "panic", grid |-> None]
          ELSE IF \E k \in 1..Len(rows) : \E j \in 1..Len(rows[k]) :
                    ~IsSome(ParseUnsigned(rows[k][j]))
          THEN [res |-> "panic", grid |-> None]
          ELSE [res |-> "ok",
                grid |-> Some([width |-> Unwrap(ParseUnsigned(parts[1])),
                               height |-> Unwrap(ParseUnsigned(parts[2])),
                               tiles |-> [k \in 1..Len(rows) |->
                                            [j \in 1..Len(rows[k]) |->
                                               Unwrap(ParseUnsigned(rows[k][j]))]]])]

ReadMap ==
    /\ loadres = "pending"
    /\ loadres' = ReadMapResult(mapfile).res
    /\ loaded' = ReadMapResult(mapfile).grid
    /\ UNCHANGED <<mapfile, searchVars, hexVars>>

(***************************************************************************)
(* handle_write.  The hex string is a sequence of characters, the file a   *)
(* sequence of bytes.                                                      *)
(***************************************************************************)
HexDigits == <<"0", "1", "2", "3", "4", "5", "6", "7", "8", "9",
               "a", "b", "c", "d", "e", "f">>
HexDigitsUpper == <<"0", "1", "2", "3", "4", "5", "6", "7", "8", "9",
                    "A", "B", "C", "D", "E", "F">>

IsHexDigit(c) == \E d \in 1..16 : HexDigits[d] = c \/ HexDigitsUpper[d] = c
HexDigitVal(c) == (CHOOSE d \in 1..16 : HexDigits[d] = c \/ HexDigitsUpper[d] = c) - 1

\* hex::decode: Err on an odd length or a character that is no hex digit,
\* else one byte per two characters
HexDecode(str) ==
    IF Len(str) % 2 # 0 \/ \E i \in 1..Len(str) : ~IsHexDigit(str[i])
    THEN None
    ELSE Some([k \in 1..(Len(str) \div 2) |->
                 16 * HexDigitVal(str[2 * k - 1]) + HexDigitVal(str[2 * k])])

\* write_all(bytes) at position offset of a file holding `content`: nothing
\* for no bytes; else the gap up to offset reads as zeros
WriteAt(content, offset, bytes) ==
    IF bytes = <<>> THEN content
    ELSE [i \in 1..(IF Len(content) > offset + Len(bytes)
                    THEN Len(content) ELSE offset + Len(bytes)) |->
            IF i > offset /\ i <= offset + Len(bytes) THEN bytes[i - offset]
            ELSE IF i <= Len(content) THEN content[i]
            ELSE 0]

\* OpenOptions::new().write(true).create(true).truncate(true).open(): the
\* file's length is set to 0
OpenTruncate(content) == <<>>

\* the file after handle_write(file, offset, hex_string)
HandleWriteFile(content, offset, hex_string) ==
    LET opened == OpenTruncate(content)
        decoded == HexDecode(hex_string)
    IN  IF IsSome(decoded)
        THEN WriteAt(opened, offset, Unwrap(decoded))
        ELSE opened

HandleWrite ==
    /\ wres = "pending"
    /\ disk' = HandleWriteFile(disk, wargs.offset, wargs.hex_string)
    /\ wres' = IF IsSome(HexDecode(wargs.hex_string)) THEN "ok" ELSE "err"
    /\ UNCHANGED <<before, wargs, searchVars, loadVars>>

(***************************************************************************)
(* The grids of the search: width, height >= 1, height rows of width       *)
(* weights >= 1.                                                           *)
(***************************************************************************)
Shapes == {s \in (1..MaxCells) \X (1..MaxCells) : s[1] * s[2] <= MaxCells}

GridsOf(w, h) ==
    {[width |-> w, height |-> h, tiles |-> t] :
        t \in [1..h -> [1..w -> 1..MaxWeight]]}

\* the spec's two concrete scenarios
Example3x2 == [width |-> 3, height |-> 2, tiles |-> << <<1, 2, 3>>, <<4, 5, 6>> >>]
Example2x2 == [width |-> 2, height |-> 2, tiles |-> << <<1, 9>>, <<9, 1>> >>]

Grids == UNION {GridsOf(s[1], s[2]) : s \in Shapes} \cup {Example3x2, Example2x2}

IdleLoad == mapfile = None /\ loadres = "idle" /\ loaded = None
IdleHex == disk = <<>> /\ before = <<>> /\ wargs = <<>> /\ wres = "idle"

Init ==
    /\ \E g \in Grids : AstarInit(g)
    /\ IdleLoad
    /\ IdleHex

Next ==
    \/ AstarFound
    \/ AstarStale
    \/ AstarExpand
    \/ AstarExhausted

Spec == Init /\ [][Next]_vars

(***************************************************************************)
(* The map files of SpecLoad: missing, empty, or a header line and data    *)
(* lines, each line some tokens joined by single spaces.                   *)
(***************************************************************************)
Tokens == { <<"0">>, <<"1">>, <<"2">>, <<"-", "1">>, <<"+", "1">>, <<"x">> }

SeqsUpTo(S, n) == UNION {[1..k -> S] : k \in 0..n}

RECURSIVE Join(_, _)
Join(toks, i) ==
    IF i > Len(toks) THEN <<>>
    ELSE (IF i > 1 THEN <<" ">> ELSE <<>>) \o toks[i] \o Join(toks, i + 1)

Lines == {Join(t, 1) : t \in SeqsUpTo(Tokens, MaxRowLen)}

MapFiles == {None, Some(<<>>)} \cup
            {Some(<<hd>> \o rows) : hd \in Lines, rows \in SeqsUpTo(Lines, MaxRows)}

IdleSearch ==
    /\ grid = [width |-> 1, height |-> 1, tiles |-> << <<1>> >>]
    /\ pc = "idle"
    /\ parents = <<>>
    /\ to_see = {}
    /\ result = None

InitLoad ==
    /\ mapfile \in MapFiles
    /\ loadres = "pending"
    /\ loaded = None
    /\ IdleSearch
    /\ IdleHex

NextLoad == ReadMap

SpecLoad == InitLoad /\ [][NextLoad]_vars

(***************************************************************************)
(* The calls of SpecHex: handle_write on an existing file.                 *)
(***************************************************************************)
Bytes == {0, 1, 255}
HexChars == {"0", "f", "g"}

InitHex ==
    /\ disk \in SeqsUpTo(Bytes, MaxFileLen)
    /\ before = disk
    /\ wargs \in [offset : 0..MaxOffset, hex_string : SeqsUpTo(HexChars, MaxHexLen)]
    /\ wres = "pending"
    /\ IdleSearch
    /\ IdleLoad

NextHex == HandleWrite

SpecHex == InitHex /\ [][NextHex]_vars

\* the search is one synchronous call: it keeps running until it returns
FairSpec == Spec /\ WF_vars(Next)

(***************************************************************************)
(* Oracles: an exhaustive search that is independent of astar.             *)
(***************************************************************************)
\* the six neighbour offsets
Offsets == { <<1, 0>>, <<-1, 0>>, <<0, 1>>, <<0, -1>>, <<1, -1>>, <<-1, 1>> }

Adjacent(a, b) == <<b.q - a.q, b.r - a.r>> \in Offsets

\* the hexes one neighbour offset away from u
Around(u) == {HexNew(u.q + o[1], u.r + o[2]) : o \in Offsets}

\* the hexes around and inside the grid
HexBox(g) ==
    {HexNew(q, r) : q \in (0 - g.height - 1)..(g.width + 1), r \in (-1)..g.height}

\* the in-bounds hexes: get_weight is Some
Tiles(g) == {x \in HexBox(g) : IsSome(GetWeight(g, x))}

\* the hexes that have an in-bounds neighbour: the tiles and the rim around
\* them, the only hexes a hop into the grid can start from
NearGrid(g) == {x \in HexBox(g) : \E m \in Around(x) : IsSome(GetWeight(g, m))}

\* the cheapest pair <<v, c>> of each hex v of D
Cheapest(D) == {p \in D : \A o \in D : o[1] = p[1] => p[2] <= o[2]}

\* Bellman-Ford to its fixpoint: D holds <<v, c>> when in-bounds hops from the
\* source reach v entering tiles of total weight c, c the least found so far
RECURSIVE Rounds(_, _)
Rounds(g, D) ==
    CHOOSE out \in
      {IF D2 = D THEN D ELSE Rounds(g, D2) :
         D2 \in {Cheapest(D \cup
                   UNION {{<<v, p[2] + Unwrap(GetWeight(g, v))>> :
                             v \in {x \in Around(p[1]) : IsSome(GetWeight(g, x))}} :
                          p \in D})}} : TRUE

\* the least costs from src: <<v, c>> for every v in-bounds hops reach
CostsFrom(g, src) == Rounds(g, {<<src, 0>>})

\* Some(least cost of a sequence of in-bounds hops from src to dst); None if
\* there is no such sequence
MinCost(g, src, dst) ==
    CHOOSE c \in
      {IF \E p \in D : p[1] = dst
       THEN Some((CHOOSE p \in D : p[1] = dst)[2])
       ELSE None : D \in {CostsFrom(g, src)}} : TRUE

Connected(g, src, dst) == IsSome(MinCost(g, src, dst))

RECURSIVE PathCost(_, _, _)
PathCost(g, path, i) ==
    IF i > Len(path) THEN 0
    ELSE Unwrap(GetWeight(g, path[i])) + PathCost(g, path, i + 1)

Returned == pc = "done" /\ IsSome(result)
RetPath == Unwrap(result)[1]
RetCost == Unwrap(result)[2]

(***************************************************************************)
(* Claims on find_shortest_path                                            *)
(***************************************************************************)

\* C1: whenever find_shortest_path returns Some(path, total_cost), total_cost
\* is the optimum of the exhaustive search from Hex{0,0} to
\* Hex{width-1,height-1}; on [[1,2,3],[4,5,6]] and on [[1,9],[9,1]] too.
C1_OptimalCost ==
    Returned => Some(RetCost) = MinCost(grid, Start, HexNew(grid.width - 1, grid.height - 1))

\* the 3x2 scenario has returned, its cost the hand-computed 2 + 3 + 6
C1_Witness ==
    /\ Returned
    /\ grid = Example3x2
    /\ RetCost = 11

\* C2: the goal Hex{width-1, height-1} maps to row height-1, col width-1 under
\* get_weight's mapping, and the start to row 0, col 0.
C2_GoalIsBottomRight ==
    /\ Row(End(grid)) = grid.height - 1
    /\ Col(End(grid)) = grid.width - 1
    /\ Row(Start) = 0
    /\ Col(Start) = 0

\* C3: None is returned exactly when no in-bounds hops connect start to goal;
\* then the start or the goal is out of bounds, as any two in-bounds tiles are
\* connected.
C3_NoneIffUnreachable ==
    pc = "done" =>
      LET goal == HexNew(grid.width - 1, grid.height - 1)
      IN  /\ (result = None) <=> ~Connected(grid, Start, goal)
          /\ result = None =>
               \/ GetWeight(grid, Start) = None
               \/ GetWeight(grid, goal) = None
          /\ \A a \in Tiles(grid) : Tiles(grid) \subseteq {p[1] : p \in CostsFrom(grid, a)}

\* the search has returned None on a grid whose goal hex is out of bounds
C3_Witness ==
    /\ pc = "done"
    /\ result = None
    /\ GetWeight(grid, End(grid)) = None
    /\ grid.width >= 2

\* C4: a returned path starts at Hex{0,0}, ends at Hex{width-1,height-1}, hops
\* by neighbour offsets through in-bounds hexes, and total_cost is the sum of
\* the weights of all its hexes but the first; on a 1x1 grid it is
\* ([Hex{0,0}], 0).
C4_PathWellFormed ==
    /\ Returned =>
         /\ RetPath[1] = HexNew(0, 0)
         /\ RetPath[Len(RetPath)] = HexNew(grid.width - 1, grid.height - 1)
         /\ \A i \in 1..(Len(RetPath) - 1) : Adjacent(RetPath[i], RetPath[i + 1])
         /\ \A i \in 2..Len(RetPath) : IsSome(GetWeight(grid, RetPath[i]))
         /\ RetCost = PathCost(grid, RetPath, 2)
    /\ (pc = "done" /\ grid.width = 1 /\ grid.height = 1) =>
         result = Some(<< <<HexNew(0, 0)>>, 0 >>)

\* a path of three hops or more has been returned, costing more than its hops
C4_Witness ==
    /\ Returned
    /\ Len(RetPath) >= 4
    /\ RetCost > Len(RetPath) - 1

\* C7: on a uniform grid of weight k the search returns a path of
\* distance(start, goal) hops and total_cost = k * hops.
C7_UniformCost ==
    (pc = "done" /\ \A a \in Tiles(grid) : GetWeight(grid, a) = GetWeight(grid, Start)) =>
      /\ IsSome(result)
      /\ Len(RetPath) - 1 = Distance(Start, End(grid))
      /\ RetCost = Unwrap(GetWeight(grid, Start)) * (Len(RetPath) - 1)

\* C6: every in-bounds (row, col), taken to axial by r = row,
\* q = col - floor(row/2), is mapped back by get_weight to (row, col) and to
\* tiles[row][col]; the column is q + floor(r/2), also for negative odd r.
C6_RoundTrip ==
    /\ \A row \in 0..(grid.height - 1) : \A col \in 0..(grid.width - 1) :
         LET hex == HexNew(col - (row \div 2), row)
         IN  /\ Row(hex) = row
             /\ Col(hex) = col
             /\ GetWeight(grid, hex) = Some(grid.tiles[row + 1][col + 1])
    /\ \A r \in (0 - MaxProbe)..MaxProbe : \A q \in (0 - MaxProbe)..MaxProbe :
         Col(HexNew(q, r)) = q + (r \div 2)

\* the search has looked up the tile of row 2, col 0, whose axial q is -1, on
\* a 2x3 grid whose last row is [2, 1], and was charged its weight 2
C6_Witness ==
    /\ grid.width = 2 /\ grid.height = 3
    /\ grid.tiles[3] = <<2, 1>>
    /\ \E i \in 2..Len(parents) :
         /\ parents[i].node = HexNew(-1, 2)
         /\ parents[i].cost = parents[parents[i].parent].cost + 2

\* C8: with all weights >= 1 the heuristic distance(n, goal) is admissible and
\* consistent: it is 0 at the goal, at most the least cost from n to the goal
\* wherever the goal is reachable, and h(n) <= weight(m) + h(m) for every
\* in-bounds neighbour m of n.
C8_HeuristicAdmissible ==
    pc = "done" =>
      LET goal == HexNew(grid.width - 1, grid.height - 1)
      IN  /\ Heuristic(grid, goal) = 0
          /\ \A n \in NearGrid(grid) : \A c \in {MinCost(grid, n, goal)} :
               IsSome(c) => Heuristic(grid, n) <= Unwrap(c)
          /\ \A n \in NearGrid(grid) : \A m \in Around(n) :
               IsSome(GetWeight(grid, m)) =>
                 Heuristic(grid, n) <= Unwrap(GetWeight(grid, m)) + Heuristic(grid, m)

\* a search that used the heuristic two hops or more from a reachable goal has
\* returned
C8_Witness ==
    /\ Returned
    /\ Heuristic(grid, Start) >= 2
    /\ \E e \in to_see : e.estimated_cost > e.cost

\* the tiles in-bounds hops reach from the start
Reachable(g) == {p[1] : p \in CostsFrom(g, Start)}

\* C9: the search terminates; with the goal unreachable it returns None, and
\* only once the frontier is empty and every reachable tile has been explored;
\* no out-of-bounds hex is ever on the frontier.
C9_Terminates ==
    /\ <>(pc = "done")
    /\ []((pc = "done" /\ ~Connected(grid, Start, HexNew(grid.width - 1, grid.height - 1))) =>
            /\ result = None
            /\ to_see = {}
            /\ {parents[i].node : i \in 1..Len(parents)} = Reachable(grid))
    /\ [](\A e \in to_see : IsSome(GetWeight(grid, parents[e.index].node)))

\* a search with an unreachable goal has ended after exploring a whole grid
\* of six tiles
C9_Witness ==
    /\ pc = "done"
    /\ result = None
    /\ to_see = {}
    /\ Len(parents) = 6
    /\ grid.width * grid.height = 6

(***************************************************************************)
(* Claims on read_map and handle_write                                     *)
(***************************************************************************)
\* the unsigned decimal numerals, with or without a "+": what a header or
\* weight token must be
Numeral(tok) == IF tok # <<>> /\ tok[1] = "+" THEN Tail(tok) ELSE tok
IsInteger(tok) == Numeral(tok) # <<>> /\ \A i \in 1..Len(Numeral(tok)) : IsDigit(Numeral(tok)[i])
IntegerOf(tok) == DigitsValue(Numeral(tok), 1, 0)

\* a map file that is there but malformed: a header of fewer than two tokens
\* or with a non-integer token, a number of data rows other than height, a row
\* whose token count is not width, a non-integer or non-positive weight
Malformed(file) ==
    /\ IsSome(file)
    /\ LET lines == Unwrap(file)
           parts == IF lines = <<>> THEN <<>> ELSE SplitWhitespace(lines[1])
       IN  \/ Len(parts) < 2
           \/ ~IsInteger(parts[1])
           \/ ~IsInteger(parts[2])
           \/ Len(lines) - 1 # IntegerOf(parts[2])
           \/ \E k \in 2..Len(lines) :
                LET row == SplitWhitespace(lines[k])
                IN  \/ Len(row) # IntegerOf(parts[1])
                    \/ \E j \in 1..Len(row) :
                         ~IsInteger(row[j]) \/ IntegerOf(row[j]) < 1

\* C5: read_map fails, returning no Grid, on every malformed input; so every
\* Grid it returns has height rows of width positive entries.  (A panic is
\* counted here as failing, though it is no io::Error.)
C5_LoaderRejectsMalformed ==
    loadres \in {"ok", "err", "panic"} =>
      /\ Malformed(mapfile) => (loadres \in {"err", "panic"} /\ loaded = None)
      /\ IsSome(loaded) =>
           LET g == Unwrap(loaded)
           IN  /\ Len(g.tiles) = g.height
               /\ \A k \in 1..Len(g.tiles) :
                    /\ Len(g.tiles[k]) = g.width
                    /\ \A j \in 1..Len(g.tiles[k]) : g.tiles[k][j] > 0

\* C10: handle_write leaves the bytes outside [offset, offset + decoded bytes)
\* as they were, and on a hex string that does not decode it returns an error
\* and leaves the file unchanged.
C10_WritePatchesInPlace ==
    wres \in {"ok", "err"} =>
      LET decoded == HexDecode(wargs.hex_string)
          n == IF IsSome(decoded) THEN Len(Unwrap(decoded)) ELSE 0
      IN  /\ \A i \in 1..Len(before) :
               (i <= wargs.offset \/ i > wargs.offset + n) =>
                 (i <= Len(disk) /\ disk[i] = before[i])
          /\ ~IsSome(decoded) => (wres = "err" /\ disk = before)

=============================================================================
